---- MODULE Spec2Model ----
(***************************************************************************)
(* The region allocator with its reclaim daemon and epoch callbacks        *)
(* (src/src/dbcore/sm-alloc.cpp) and the SSN reader tracking               *)
(* (src/src/dbcore/serial.cpp).                                            *)
(*                                                                         *)
(* One socket (ra_nsock = 1), one table.  Addresses: a hot object is named *)
(* by its byte offset from _hot_data (0 .. hot_capacity-1), a cold object  *)
(* by hot_capacity + its offset from _cold_data; NULL is -1.  An object    *)
(* header is [size, clsn, next].  Memory that nothing can reach any more   *)
(* is forgotten (Clean), so that states differing only in garbage are one. *)
(*                                                                         *)
(* The epoch manager (epoch.cpp) and the transaction layer (txn.cpp) are   *)
(* not among the sources; what the allocator needs of them is modelled     *)
(* from the specification: one closed epoch at a time, whose callback runs *)
(* once every thread that was inside it when it closed has left.           *)
(* condition_variable::wait is modelled without spurious wake-ups.         *)
(***************************************************************************)
EXTENDS Integers, Sequences, FiniteSets, TLC

\* ---- bounds of the model
NumThreads == 2
MaxSize == 2
MaxHot == 8
MaxHotWide == 20
MaxHotRing == 18
MaxLsn == 3
NumOids == 1
SegmentBits == 2
BitmapBits == 2
NumTuples == 2
MaxReads == 2
NumReaders == 3
MaxStamp == 2

\* ---- program constants
NUM_SEGMENT_BITS == 2
RA_NORMAL == 0
RA_GC_REQUESTED == 1
RA_GC_IN_PROG == 2
RA_GC_FINISHED == 3
INVALID_LSN == 0
NULL == -1
PERSISTENT_READER_MARK == 1
PERSISTENT_READER_LOCK == 128

Threads == 1..NumThreads
Readers == 1..NumReaders
Oids == 1..NumOids
Sizes == 1..MaxSize

RECURSIVE Pow2(_)
Pow2(n) == IF n = 0 THEN 1 ELSE 2 * Pow2(n - 1)

seg_size == Pow2(SegmentBits)
hot_capacity == Pow2(NUM_SEGMENT_BITS + SegmentBits)
cold_capacity == seg_size * 2
Addrs == 0..(hot_capacity + cold_capacity - 1)
NoObj == [size |-> 0, clsn |-> 0, next |-> NULL]

VARIABLES
    allocated_hot_offset,   \* region_allocator::_allocated_hot_offset
    allocated_cold_offset,  \* region_allocator::_allocated_cold_offset
    reclaimed_offset,       \* region_allocator::_reclaimed_offset
    state,                  \* region_allocator::_state
    trim_lsn,               \* RA::trim_lsn
    cur_lsn,                \* logger->cur_lsn()
    mem,                    \* object headers by address
    heads,                  \* the table's tuple vector: oid -> head object
    dpc,                    \* where the reclaim daemon is
    d,                      \* the daemon's locals
    pc,                     \* where each worker thread is
    tl,                     \* each worker's locals inside allocate
    inEpoch,                \* "out", "cur" (inside the open epoch), "old" (straggler)
    epoch_closed,           \* a closed epoch awaits its stragglers
    epoch_cookie,           \* what epoch_ended returned for it
    atFinish,               \* threads inside an epoch since the last drain ended
    kept                    \* a chunk that allocate has returned, remembered

avars == <<allocated_hot_offset, allocated_cold_offset, reclaimed_offset, state,
           trim_lsn, cur_lsn, mem, heads, dpc, d, pc, tl, inEpoch,
           epoch_closed, epoch_cookie, atFinish, kept>>

\* serial.cpp
VARIABLES
    tls_bitmap_entry,       \* each thread's tls_bitmap_entry
    claimed_bitmap_entries, \* the claimed word
    rl_bitmap,              \* dbtuple::rl_bitmap of each version
    persistent_reader,      \* the old-version marker of each version
    xids,                   \* rlist.xids by bit position
    read_set,               \* each transaction's read set, in read order
    oldFor,                 \* the versions each transaction takes for old ones
    nreads,                 \* reads each transaction has made
    touched,                \* versions each thread's latest transaction has read
    sl,                     \* each thread's locals inside the serial_ calls
    spc,                    \* where each thread is in its transaction
    last_read_mostly_clsns, \* rlist.last_read_mostly_clsns by bit position
    next_cstamp,            \* the next commit stamp the log hands out
    cstamp,                 \* each transaction's commit stamp (0: none yet)
    stamped,                \* the highest stamp a holder of each bit has published
    wr                      \* the updater of each version: its pre-commit locals

svars == <<tls_bitmap_entry, claimed_bitmap_entries, rl_bitmap, persistent_reader,
           xids, read_set, oldFor, nreads, touched, sl, spc,
           last_read_mostly_clsns, next_cstamp, cstamp, stamped, wr>>

stampvars == <<last_read_mostly_clsns, next_cstamp, cstamp, stamped>>

vars == <<avars, svars>>

\* ------------------------------------------------------------ helpers

RECURSIVE Closure(_, _)
Closure(m, S) ==
    LET N == (S \cup {m[a].next : a \in S}) \ {NULL}
    IN  IF N = S THEN S ELSE Closure(m, N)

\* Forget every object header that no pointer of the program leads to.
Clean(m, hd, dl) ==
    LET roots == ({hd[o] : o \in Oids} \cup {dl.head, dl.cur, dl.prev}) \ {NULL}
        R == Closure(m, roots)
    IN  [a \in Addrs |-> IF a \in R THEN m[a] ELSE NoObj]

NoLocals == [size |-> 0, addr |-> NULL]
NoChunk == [end |-> 0, size |-> 0]
\* won and lost record, for the oid under way, the last head swap that
\* failed: the clsn of the head found there and of the version held.
NoDaemonLocals == [tlsn |-> 0, start |-> 0, oid |-> 0,
                   head |-> NULL, cur |-> NULL, prev |-> NULL,
                   won |-> 0, lost |-> 0]

\* std::terminate: the daemon's uncaught exception, or the fatal
\* "GC requested before last round finishes" in a worker.
Alive == dpc # "terminated" /\ \A t \in Threads : pc[t] # "overlap"

\* ------------------------------------------------------------ region_allocator

\* The span test with the chunk's last byte taken one byte short.
SpansShort(noffset, size) ==
    ((noffset - 2) \div seg_size) # ((noffset - size) \div seg_size)

\* sm-alloc.cpp:280  ((noffset-1) >> sbits) != ((noffset-size) >> sbits)
Spans(noffset, size) ==
    ((noffset - 1) \div seg_size) # ((noffset - size) \div seg_size)

\* sm-alloc.cpp:297  &_hot_data[(noffset - size) & _hot_mask]
HotAddr(noffset, size) == (noffset - size) % hot_capacity

\* sm-alloc.cpp:305  &_cold_data[(noffset - size) & _cold_mask]
ColdAddr(noffset, size) == hot_capacity + ((noffset - size) % cold_capacity)

\* The memory test failing already when the chunk ends exactly at the limit.
OutOfMemoryInclusive(recl, noffset) == recl <= noffset

\* A test that lets the cursor run one segment past the reclaimed offset.
OutOfMemoryLate(recl, noffset) == recl + seg_size < noffset

\* sm-alloc.cpp:276  THROW_IF(volatile_read(_reclaimed_offset) < noffset, std::bad_alloc)
OutOfMemory(recl, noffset) == recl < noffset

\* A pass that requests a collection whatever the state is.
AllocOnceAnyState(aho, recl, st, size) ==
    LET noffset == aho + size
    IN  [noffset |-> noffset,
         outcome |-> IF recl < noffset THEN "oom"
                     ELSE IF ((noffset - 1) \div seg_size) # ((noffset - size) \div seg_size)
                          THEN "setreq"
                          ELSE "ok"]

\* One pass of region_allocator::allocate from the fetch-and-add at `retry` to
\* the throw, the test of the state, or the return (sm-alloc.cpp:274-297).
AllocOnce(aho, recl, st, size) ==
    LET noffset == aho + size
    IN  [noffset |-> noffset,
         outcome |-> IF OutOfMemory(recl, noffset) THEN "oom"
                     ELSE IF Spans(noffset, size)
                          THEN (IF st # RA_NORMAL THEN "overlap" ELSE "setreq")
                          ELSE "ok"]

\* allocate as the daemon runs it, in one step: a second pass follows the
\* set_state(RA_GC_REQUESTED) of a first pass that spanned in state NORMAL.
DaemonAlloc(aho, recl, st, size) ==
    LET r1 == AllocOnce(aho, recl, st, size)
        r2 == AllocOnce(r1.noffset, recl, RA_GC_REQUESTED, size)
    IN  IF r1.outcome = "setreq"
        THEN [noffset |-> r2.noffset, outcome |-> r2.outcome, st |-> RA_GC_REQUESTED]
        ELSE [noffset |-> r1.noffset, outcome |-> r1.outcome, st |-> st]

\* ------------------------------------------------------------ epoch callbacks

\* A callback that takes the log's LSN whoever calls.
epoch_ended_any(rcu_is_active) ==
    IF state = RA_GC_REQUESTED \/ state = RA_GC_FINISHED THEN cur_lsn ELSE NULL

\* RA::epoch_ended (sm-alloc.cpp:157-179): a cookie only when the allocator is
\* in GC_REQUESTED or GC_FINISHED; INVALID_LSN when the caller is outside an
\* RCU region (an epoch that ends at thread exit).
epoch_ended(rcu_is_active) ==
    IF state = RA_GC_REQUESTED \/ state = RA_GC_FINISHED
    THEN (IF rcu_is_active THEN cur_lsn ELSE INVALID_LSN)
    ELSE NULL

\* A bump by two segments.
ReclaimBumpTwo(recl) == recl + 2 * seg_size

\* sm-alloc.cpp:206-207  _reclaimed_offset + (1 << _segment_bits)
ReclaimBump(recl) == recl + seg_size

\* RA::epoch_reclaimed (sm-alloc.cpp:189-211)
epoch_reclaimed(cookie) ==
    /\ trim_lsn' = IF cookie # INVALID_LSN THEN cookie ELSE trim_lsn
    /\ IF state = RA_GC_REQUESTED
       THEN /\ state' = RA_GC_IN_PROG
            \* trigger_reclaim: notify_all reaches the daemon only if it waits
            /\ dpc' = IF dpc = "waiting" THEN "woken" ELSE dpc
            /\ UNCHANGED reclaimed_offset
       ELSE IF state = RA_GC_FINISHED
       THEN /\ reclaimed_offset' = ReclaimBump(reclaimed_offset)
            /\ state' = RA_NORMAL
            /\ UNCHANGED dpc
       ELSE UNCHANGED <<state, dpc, reclaimed_offset>>

\* ------------------------------------------------------------ epoch manager

new_epoch_possible == ~epoch_closed

\* new_epoch: the open epoch closes, the threads inside it become stragglers.
new_epoch(rcu_is_active) ==
    /\ epoch_closed' = TRUE
    /\ epoch_cookie' = epoch_ended(rcu_is_active)
    /\ inEpoch' = [t \in Threads |-> IF inEpoch[t] = "cur" THEN "old" ELSE inEpoch[t]]

\* ------------------------------------------------------------ worker threads

\* RA::epoch_enter (sm-alloc.cpp:213-220): a transaction begins.
EpochEnter(t) ==
    /\ Alive /\ pc[t] = "idle"
    /\ pc' = [pc EXCEPT ![t] = "txn"]
    /\ inEpoch' = [inEpoch EXCEPT ![t] = "cur"]
    /\ UNCHANGED <<svars, kept, allocated_hot_offset, allocated_cold_offset, reclaimed_offset,
                   state, trim_lsn, cur_lsn, mem, heads, dpc, d, tl,
                   epoch_closed, epoch_cookie, atFinish>>

\* RA::epoch_exit (sm-alloc.cpp:222-227): the transaction ends and the thread
\* keeps no pointer to any version.
EpochExit(t) ==
    /\ Alive /\ pc[t] = "txn"
    /\ pc' = [pc EXCEPT ![t] = "idle"]
    /\ inEpoch' = [inEpoch EXCEPT ![t] = "out"]
    /\ atFinish' = atFinish \ {t}
    /\ UNCHANGED <<svars, kept, allocated_hot_offset, allocated_cold_offset, reclaimed_offset,
                   state, trim_lsn, cur_lsn, mem, heads, dpc, d, tl,
                   epoch_closed, epoch_cookie>>

\* One pass of allocate by worker t for size bytes: where it goes next.
AllocPass(t, size) ==
    LET r == AllocOnce(allocated_hot_offset, reclaimed_offset, state, size)
    IN  /\ allocated_hot_offset' = r.noffset
        /\ tl' = [tl EXCEPT ![t] = [size |-> size,
                                    addr |-> IF r.outcome = "ok"
                                             THEN HotAddr(r.noffset, size)
                                             ELSE NULL]]
        /\ pc' = [pc EXCEPT ![t] = CASE r.outcome = "oom" -> "oom"
                                     [] r.outcome = "overlap" -> "overlap"
                                     [] r.outcome = "setreq" -> "setreq"
                                     [] OTHER -> "got"]

\* The chunk a pass returns (sm-alloc.cpp:297), by the cursor after it, may
\* be remembered if none is; it is one of the ring's first segment, the one
\* the cursor comes round to within the model's bound.
Remember(t, size, keep) ==
    kept' = IF keep /\ kept = NoChunk /\ pc'[t] = "got"
               /\ allocated_hot_offset' <= seg_size
            THEN [end |-> allocated_hot_offset', size |-> size]
            ELSE kept

\* One pass of allocate by worker t, who stands at `from`.
AllocStep(t, size, from, keep) ==
    /\ Alive /\ pc[t] = from
    /\ AllocPass(t, size)
    /\ Remember(t, size, keep)
    /\ UNCHANGED <<svars, allocated_cold_offset, reclaimed_offset, state, trim_lsn,
                   cur_lsn, mem, heads, dpc, d, inEpoch,
                   epoch_closed, epoch_cookie, atFinish>>

\* RA::allocate (sm-alloc.cpp:108-115) with system_loading false, and the
\* first pass of region_allocator::allocate (sm-alloc.cpp:274-288, 297).
AllocCall(t, size) == AllocStep(t, size, "txn", FALSE)

\* A transaction allocates, as long as the cursor is below the model's bound.
Allocate(t, size) == allocated_hot_offset < MaxHot /\ AllocCall(t, size)
AllocateWide(t, size) == allocated_hot_offset < MaxHotWide /\ AllocCall(t, size)

\* The same, and the chunk may be remembered.
AllocateKeep(t, size) ==
    /\ allocated_hot_offset < MaxHotRing
    /\ \E keep \in BOOLEAN : AllocStep(t, size, "txn", keep)

\* sm-alloc.cpp:286  set_state(RA_GC_REQUESTED)
AllocSetRequested(t) ==
    /\ Alive /\ pc[t] = "setreq"
    /\ state' = RA_GC_REQUESTED
    /\ pc' = [pc EXCEPT ![t] = "retry"]
    /\ UNCHANGED <<svars, kept, allocated_hot_offset, allocated_cold_offset, reclaimed_offset,
                   trim_lsn, cur_lsn, mem, heads, dpc, d, tl, inEpoch,
                   epoch_closed, epoch_cookie, atFinish>>

\* sm-alloc.cpp:287  goto retry: the next pass (sm-alloc.cpp:274-288, 297)
AllocRetry(t) == AllocStep(t, tl[t].size, "retry", FALSE)

\* The same, and the chunk may be remembered.
AllocRetryKeep(t) == \E keep \in BOOLEAN : AllocStep(t, tl[t].size, "retry", keep)

\* sm-alloc.cpp:290-295: _allocated has reached TRIM_MARK and a new epoch is
\* possible: the allocating thread, inside its transaction, ends the epoch.
\* (_allocated is not modelled: whether the mark is reached is left open.)
AllocNewEpoch(t) ==
    /\ Alive /\ pc[t] = "got"
    /\ new_epoch_possible
    /\ new_epoch(TRUE)
    /\ UNCHANGED <<svars, kept, allocated_hot_offset, allocated_cold_offset, reclaimed_offset,
                   state, trim_lsn, cur_lsn, mem, heads, dpc, d, pc, tl, atFinish>>

\* std::bad_alloc reaches the caller, which gives the allocation up.
AllocFailed(t) ==
    /\ Alive /\ pc[t] = "oom"
    /\ pc' = [pc EXCEPT ![t] = "txn"]
    /\ tl' = [tl EXCEPT ![t] = NoLocals]
    /\ UNCHANGED <<svars, kept, allocated_hot_offset, allocated_cold_offset, reclaimed_offset,
                   state, trim_lsn, cur_lsn, mem, heads, dpc, d, inEpoch,
                   epoch_closed, epoch_cookie, atFinish>>

\* The writer fills the chunk with a new version of oid o (size, next = the
\* current head, clsn = its commit stamp) and installs it as the head by CAS.
Install(t, o) ==
    /\ Alive /\ pc[t] = "got"
    /\ cur_lsn < MaxLsn
    /\ LET a == tl[t].addr
           m1 == [mem EXCEPT ![a] = [size |-> tl[t].size, clsn |-> cur_lsn,
                                     next |-> heads[o]]]
       IN  /\ heads' = [heads EXCEPT ![o] = a]
           /\ mem' = Clean(m1, heads', d)
    /\ cur_lsn' = cur_lsn + 1
    /\ pc' = [pc EXCEPT ![t] = "txn"]
    /\ tl' = [tl EXCEPT ![t] = NoLocals]
    /\ UNCHANGED <<svars, kept, allocated_hot_offset, allocated_cold_offset, reclaimed_offset,
                   state, trim_lsn, dpc, d, inEpoch,
                   epoch_closed, epoch_cookie, atFinish>>

\* The transaction does not install the chunk (it aborts): the bytes stay
\* allocated and unused.
Discard(t) ==
    /\ Alive /\ pc[t] = "got"
    /\ pc' = [pc EXCEPT ![t] = "txn"]
    /\ tl' = [tl EXCEPT ![t] = NoLocals]
    /\ UNCHANGED <<svars, kept, allocated_hot_offset, allocated_cold_offset, reclaimed_offset,
                   state, trim_lsn, cur_lsn, mem, heads, dpc, d, inEpoch,
                   epoch_closed, epoch_cookie, atFinish>>

\* ------------------------------------------------------------ epochs

\* An epoch ends at thread exit (epoch_mgr::thread_init): the caller is not
\* inside an RCU region.
ThreadExitNewEpoch(t) ==
    /\ Alive /\ pc[t] = "idle"
    /\ new_epoch_possible
    /\ new_epoch(FALSE)
    /\ UNCHANGED <<svars, kept, allocated_hot_offset, allocated_cold_offset, reclaimed_offset,
                   state, trim_lsn, cur_lsn, mem, heads, dpc, d, pc, tl, atFinish>>

\* The closed epoch has no straggler left: its callback runs with the cookie
\* epoch_ended returned; an epoch that got no cookie is retired silently.
EpochReclaim ==
    /\ Alive /\ epoch_closed
    /\ \A t \in Threads : inEpoch[t] # "old"
    /\ epoch_closed' = FALSE
    /\ epoch_cookie' = NULL
    /\ IF epoch_cookie # NULL
       THEN epoch_reclaimed(epoch_cookie)
       ELSE UNCHANGED <<trim_lsn, state, dpc, reclaimed_offset>>
    /\ UNCHANGED <<svars, kept, allocated_hot_offset, allocated_cold_offset, cur_lsn, mem,
                   heads, d, pc, tl, inEpoch, atFinish>>

\* ------------------------------------------------------------ reclaim daemon

\* sm-alloc.cpp:347,360  offset >= start_offset && offset + size <= end_offset
InSegment(start, offset, size) ==
    offset >= start /\ offset + size <= start + seg_size

\* The for loop over the oids (sm-alloc.cpp:333): `continue` and `break` both
\* go on to the next oid, and past the last one the drain ends.
NextOid == [d EXCEPT !.oid = @ + 1, !.head = NULL, !.cur = NULL, !.prev = NULL,
                     !.won = 0, !.lost = 0]
AfterOid == IF d.oid + 1 > NumOids THEN "finish" ELSE "start_over"

\* sm-alloc.cpp:316-317  forever: _reclaim_cv.wait(lock)
DaemonWait ==
    /\ Alive /\ dpc = "forever"
    /\ dpc' = "waiting"
    /\ UNCHANGED <<svars, kept, allocated_hot_offset, allocated_cold_offset, reclaimed_offset,
                   state, trim_lsn, cur_lsn, mem, heads, d, pc, tl, inEpoch,
                   epoch_closed, epoch_cookie, atFinish>>

\* sm-alloc.cpp:318-322: the trim LSN and the segment to drain.
DaemonBegin ==
    /\ Alive /\ dpc = "woken"
    /\ d' = [NoDaemonLocals EXCEPT !.tlsn = trim_lsn,
                                   !.start = reclaimed_offset % hot_capacity,
                                   !.oid = 1]
    /\ dpc' = "start_over"
    /\ UNCHANGED <<svars, kept, allocated_hot_offset, allocated_cold_offset, reclaimed_offset,
                   state, trim_lsn, cur_lsn, mem, heads, pc, tl, inEpoch,
                   epoch_closed, epoch_cookie, atFinish>>

\* sm-alloc.cpp:334-338  start_over: cur = head = v->begin(oid)
DaemonStartOver ==
    /\ Alive /\ dpc = "start_over"
    /\ IF heads[d.oid] = NULL
       THEN /\ d' = NextOid
            /\ dpc' = AfterOid
       ELSE /\ d' = [d EXCEPT !.head = heads[d.oid], !.cur = heads[d.oid],
                              !.prev = NULL]
            /\ dpc' = "head"
    /\ mem' = Clean(mem, heads, d')
    /\ UNCHANGED <<svars, kept, allocated_hot_offset, allocated_cold_offset, reclaimed_offset,
                   state, trim_lsn, cur_lsn, heads, pc, tl, inEpoch,
                   epoch_closed, epoch_cookie, atFinish>>

\* goto start_over (sm-alloc.cpp:353,365,375,380); a head swap that failed
\* is remembered.
StartOver ==
    IF d.cur = d.head /\ heads[d.oid] # d.head
    THEN [d EXCEPT !.head = NULL, !.cur = NULL, !.prev = NULL,
                   !.won = mem[heads[d.oid]].clsn, !.lost = mem[d.cur].clsn]
    ELSE [d EXCEPT !.head = NULL, !.cur = NULL, !.prev = NULL]

\* A daemon that sends every head of the segment to cold storage.
HeadGoesColdWhatever == InSegment(d.start, d.cur, mem[d.cur].size)

\* sm-alloc.cpp:347  the head lies in the segment and is older than the trim LSN
HeadGoesCold == 
    /\ InSegment(d.start, d.cur, mem[d.cur].size)
    /\ mem[d.cur].clsn < d.tlsn

\* sm-alloc.cpp:340-355: the head is copied to cold storage with no
\* predecessor and swapped in by CAS; allocate_cold may throw.
DaemonHeadCold ==
    /\ Alive /\ dpc = "head"
    /\ HeadGoesCold
    /\ LET size == mem[d.cur].size
           noffset == allocated_cold_offset + size
           new == ColdAddr(noffset, size)
           m1 == [mem EXCEPT ![new] = [mem[d.cur] EXCEPT !.next = NULL]]
       IN  /\ allocated_cold_offset' = noffset
           /\ IF cold_capacity < noffset
              THEN /\ dpc' = "terminated"
                   /\ UNCHANGED <<mem, heads, d>>
              ELSE IF heads[d.oid] = d.cur
              THEN /\ heads' = [heads EXCEPT ![d.oid] = new]
                   /\ d' = NextOid
                   /\ dpc' = AfterOid
                   /\ mem' = Clean(m1, heads', d')
              ELSE /\ d' = StartOver
                   /\ dpc' = "start_over"
                   /\ mem' = Clean(m1, heads, d')
                   /\ UNCHANGED heads
    /\ UNCHANGED <<svars, kept, allocated_hot_offset, reclaimed_offset, state, trim_lsn,
                   cur_lsn, pc, tl, inEpoch, epoch_closed, epoch_cookie,
                   atFinish>>

\* sm-alloc.cpp:357  while (cur): the daemon stands at a version of the chain,
\* the head included once it is known not to go cold.
Walking == dpc = "walk" \/ (dpc = "head" /\ ~HeadGoesCold)

\* sm-alloc.cpp:383-384,357  prev = cur; cur = cur->_next; while (cur)
Advance(m) ==
    IF m[d.cur].next = NULL THEN NextOid
    ELSE [d EXCEPT !.prev = d.cur, !.cur = m[d.cur].next]
AdvancePc(m) == IF m[d.cur].next = NULL THEN AfterOid ELSE "walk"

\* sm-alloc.cpp:360,383-384: a version outside the segment is stepped over.
DaemonWalkSkip ==
    /\ Alive /\ Walking
    /\ ~InSegment(d.start, d.cur, mem[d.cur].size)
    /\ d' = Advance(mem)
    /\ dpc' = AdvancePc(mem)
    /\ mem' = Clean(mem, heads, d')
    /\ UNCHANGED <<svars, kept, allocated_hot_offset, allocated_cold_offset, reclaimed_offset,
                   state, trim_lsn, cur_lsn, heads, pc, tl, inEpoch,
                   epoch_closed, epoch_cookie, atFinish>>

\* A walk that cuts off every interior version of the segment.
TruncatesWhatever == d.prev # NULL

\* sm-alloc.cpp:363  LSN::from_ptr(clsn) < tlsn && prev
Truncates == mem[d.cur].clsn < d.tlsn /\ d.prev # NULL

\* sm-alloc.cpp:363-367: an interior version older than the trim LSN is cut
\* off its predecessor by CAS, and the walk of this oid ends.
DaemonWalkTruncate ==
    /\ Alive /\ Walking
    /\ InSegment(d.start, d.cur, mem[d.cur].size)
    /\ Truncates
    /\ IF mem[d.prev].next = d.cur
       THEN /\ d' = NextOid
            /\ dpc' = AfterOid
            /\ mem' = Clean([mem EXCEPT ![d.prev].next = NULL], heads, d')
       ELSE /\ d' = StartOver
            /\ dpc' = "start_over"
            /\ mem' = Clean(mem, heads, d')
    /\ UNCHANGED <<svars, kept, allocated_hot_offset, allocated_cold_offset, reclaimed_offset,
                   state, trim_lsn, cur_lsn, heads, pc, tl, inEpoch,
                   epoch_closed, epoch_cookie, atFinish>>

\* A swap by plain stores in place of the compare-and-swap.
SwapInBlind(m, new) ==
    IF d.cur = d.head
    THEN [ok |-> TRUE, mem |-> m, heads |-> [heads EXCEPT ![d.oid] = new]]
    ELSE [ok |-> TRUE, mem |-> [m EXCEPT ![d.prev].next = new], heads |-> heads]

\* sm-alloc.cpp:372-381: the copy is swapped in by CAS, for the head into the
\* tuple vector, otherwise into prev->_next; the memory and the heads after
\* it, and whether it succeeded.
SwapIn(m, new) ==
    IF d.cur = d.head
    THEN [ok |-> heads[d.oid] = d.cur, mem |-> m,
          heads |-> [heads EXCEPT ![d.oid] = new]]
    ELSE [ok |-> m[d.prev].next = d.cur, mem |-> [m EXCEPT ![d.prev].next = new],
          heads |-> heads]

\* sm-alloc.cpp:368-384: a version of the segment that stays is copied to a
\* fresh hot chunk and the copy is swapped in; allocate may throw.
DaemonWalkRelocate ==
    /\ Alive /\ Walking
    /\ InSegment(d.start, d.cur, mem[d.cur].size)
    /\ ~Truncates
    /\ LET size == mem[d.cur].size
           r == DaemonAlloc(allocated_hot_offset, reclaimed_offset, state, size)
           new == HotAddr(r.noffset, size)
           m1 == [mem EXCEPT ![new] = mem[d.cur]]
           sw == SwapIn(m1, new)
       IN  /\ allocated_hot_offset' = r.noffset
           /\ state' = r.st
           /\ IF r.outcome # "ok"
              THEN /\ dpc' = "terminated"
                   /\ UNCHANGED <<mem, heads, d>>
              ELSE IF sw.ok
              THEN /\ heads' = sw.heads
                   /\ d' = Advance(sw.mem)
                   /\ dpc' = AdvancePc(sw.mem)
                   /\ mem' = Clean(sw.mem, heads', d')
              ELSE /\ d' = StartOver
                   /\ dpc' = "start_over"
                   /\ mem' = Clean(m1, heads, d')
                   /\ UNCHANGED heads
    /\ UNCHANGED <<svars, kept, allocated_cold_offset, reclaimed_offset, trim_lsn, cur_lsn,
                   pc, tl, inEpoch, epoch_closed, epoch_cookie, atFinish>>

\* sm-alloc.cpp:389-393: set_state(RA_GC_FINISHED); goto forever.  The ASSERT
\* of line 389 is compiled out of a release build.
DaemonFinish ==
    /\ Alive /\ dpc = "finish"
    /\ state' = RA_GC_FINISHED
    /\ dpc' = "forever"
    /\ d' = NoDaemonLocals
    /\ atFinish' = {t \in Threads : inEpoch[t] # "out"}
    /\ mem' = Clean(mem, heads, d')
    /\ UNCHANGED <<svars, kept, allocated_hot_offset, allocated_cold_offset, reclaimed_offset,
                   trim_lsn, cur_lsn, heads, pc, tl, inEpoch,
                   epoch_closed, epoch_cookie>>

\* ------------------------------------------------------------ serial.cpp

RECURSIVE BitAnd(_, _)
BitAnd(a, b) ==
    IF a = 0 \/ b = 0 THEN 0
    ELSE (a % 2) * (b % 2) + 2 * BitAnd(a \div 2, b \div 2)

RECURSIVE BitOr(_, _)
BitOr(a, b) ==
    IF a = 0 THEN b
    ELSE IF b = 0 THEN a
    ELSE (IF a % 2 = 1 \/ b % 2 = 1 THEN 1 ELSE 0) + 2 * BitOr(a \div 2, b \div 2)

RECURSIVE BitXor(_, _)
BitXor(a, b) ==
    IF a = 0 THEN b
    ELSE IF b = 0 THEN a
    ELSE (((a % 2) + (b % 2)) % 2) + 2 * BitXor(a \div 2, b \div 2)

\* __builtin_ctzll, for a non-zero word
RECURSIVE Ctz(_)
Ctz(x) == IF x % 2 = 1 THEN 0 ELSE 1 + Ctz(x \div 2)

\* rl_bitmap_t, BitmapBits wide
WordSize == Pow2(BitmapBits)
Tuples == 1..NumTuples
Slots == 0..(BitmapBits - 1)

NoReaderLocals == [tup |-> 0, old_bitmap |-> 0]
NoWriterLocals == [pc |-> "none", cstamp |-> 0, bm |-> 0, mark |-> FALSE,
                   todo |-> {}, pstamp |-> 0]

\* assign_reader_bitmap_entry (serial.cpp:179-183): a thread without an entry
\* reads the claimed word.
AssignRead(t) ==
    /\ spc[t] = "none"
    /\ tls_bitmap_entry[t] = 0
    /\ sl' = [sl EXCEPT ![t] = [tup |-> 0, old_bitmap |-> claimed_bitmap_entries]]
    /\ spc' = [spc EXCEPT ![t] = "assign"]
    /\ UNCHANGED <<avars, wr, stampvars, tls_bitmap_entry, claimed_bitmap_entries, rl_bitmap,
                   persistent_reader, xids, read_set, oldFor, nreads, touched>>

\* A new word that claims the bit after the lowest unset one.
NewBitmapSkip(old_bitmap) == BitOr(old_bitmap, (2 * (old_bitmap + 1)) % WordSize)

\* serial.cpp:185  new_bitmap = old_bitmap | (old_bitmap+1)
NewBitmap(old_bitmap) == BitOr(old_bitmap, (old_bitmap + 1) % WordSize)

\* serial.cpp:184-191: the compare-and-swap on the claimed word; a failed one
\* retries with the value it saw.
AssignCas(t) ==
    /\ spc[t] = "assign"
    /\ LET old_bitmap == sl[t].old_bitmap
           new_bitmap == NewBitmap(old_bitmap)
       IN  IF claimed_bitmap_entries = old_bitmap
           THEN /\ claimed_bitmap_entries' = new_bitmap
                /\ tls_bitmap_entry' =
                       [tls_bitmap_entry EXCEPT ![t] = BitXor(new_bitmap, old_bitmap)]
                /\ sl' = [sl EXCEPT ![t] = NoReaderLocals]
                /\ spc' = [spc EXCEPT ![t] = "idle"]
           ELSE /\ sl' = [sl EXCEPT ![t].old_bitmap = claimed_bitmap_entries]
                /\ UNCHANGED <<claimed_bitmap_entries, tls_bitmap_entry, spc>>
    /\ UNCHANGED <<avars, wr, stampvars, rl_bitmap, persistent_reader, xids, read_set, oldFor,
                   nreads, touched>>

\* deassign_reader_bitmap_entry (serial.cpp:197-202), at thread exit.
Deassign(t) ==
    /\ spc[t] = "idle"
    /\ claimed_bitmap_entries' = BitXor(claimed_bitmap_entries, tls_bitmap_entry[t])
    /\ tls_bitmap_entry' = [tls_bitmap_entry EXCEPT ![t] = 0]
    /\ spc' = [spc EXCEPT ![t] = "none"]
    /\ touched' = [touched EXCEPT ![t] = {}]
    /\ nreads' = [nreads EXCEPT ![t] = 0]
    /\ UNCHANGED <<avars, wr, stampvars, rl_bitmap, persistent_reader, xids, read_set, oldFor, sl>>

\* The position of a thread's bit, __builtin_ctzll(tls_bitmap_entry)
\* (serial.cpp:236-237, 244, 251).  The builtin's result is undefined for a
\* zero word: any position may come out.
XidPos(entry) == IF entry = 0 THEN Slots ELSE {Ctz(entry)}

\* serial_register_tx (serial.cpp:232-238) at the start of a transaction for
\* which the versions in old are older than the threshold (begin stamp minus
\* creation stamp).
TxStart(t, old) ==
    /\ spc[t] = "idle"
    /\ \E i \in XidPos(tls_bitmap_entry[t]) : xids' = [xids EXCEPT ![i] = t]
    /\ oldFor' = [oldFor EXCEPT ![t] = old]
    /\ read_set' = [read_set EXCEPT ![t] = <<>>]
    /\ touched' = [touched EXCEPT ![t] = {}]
    /\ nreads' = [nreads EXCEPT ![t] = 0]
    /\ cstamp' = [cstamp EXCEPT ![t] = 0]
    /\ spc' = [spc EXCEPT ![t] = "active"]
    /\ UNCHANGED <<avars, wr, tls_bitmap_entry, claimed_bitmap_entries, rl_bitmap,
                   persistent_reader, sl, last_read_mostly_clsns, next_cstamp,
                   stamped>>

\* A transaction begins; which versions are old for it is fixed from here on.
TxBegin(t) == \E old \in SUBSET Tuples : TxStart(t, old)

\* A transaction that will read nothing begins.
TxBeginPlain(t) == TxStart(t, {})

\* LSN::offset(), the raw value of the stamp.
LsnOffset(val) == val

\* A lookup that reads the first position whatever the index.
GetFirstSlotCstamp(xid_idx) == LsnOffset(last_read_mostly_clsns[0])

\* serial_get_last_read_mostly_cstamp (serial.cpp:254-258)
serial_get_last_read_mostly_cstamp(xid_idx) == LsnOffset(last_read_mostly_clsns[xid_idx])

\* Pre-commit: the transaction takes its commit stamp from the log.
PreCommit(t) ==
    /\ spc[t] = "active"
    /\ next_cstamp <= MaxStamp
    /\ cstamp' = [cstamp EXCEPT ![t] = next_cstamp]
    /\ next_cstamp' = next_cstamp + 1
    /\ spc' = [spc EXCEPT ![t] = "precommit"]
    /\ UNCHANGED <<avars, wr, tls_bitmap_entry, claimed_bitmap_entries, rl_bitmap,
                   persistent_reader, xids, read_set, oldFor, nreads, touched, sl,
                   last_read_mostly_clsns, stamped>>

\* serial_stamp_last_committed_lsn (serial.cpp:248-252), once the transaction
\* is sure to commit; post-commit follows.
Stamp(t) ==
    /\ spc[t] = "precommit"
    /\ \E i \in XidPos(tls_bitmap_entry[t]) :
           last_read_mostly_clsns' = [last_read_mostly_clsns EXCEPT ![i] = cstamp[t]]
    /\ stamped' = IF tls_bitmap_entry[t] = 0 THEN stamped
                  ELSE [stamped EXCEPT ![Ctz(tls_bitmap_entry[t])] =
                           IF cstamp[t] > @ THEN cstamp[t] ELSE @]
    /\ spc' = [spc EXCEPT ![t] = "finishing"]
    /\ UNCHANGED <<avars, wr, tls_bitmap_entry, claimed_bitmap_entries, rl_bitmap,
                   persistent_reader, xids, read_set, oldFor, nreads, touched, sl,
                   next_cstamp, cstamp>>

\* The old-version marker (serial.cpp:37-41): LOCK is the most significant
\* bit, MARK the least significant one.
Locked(marker) == BitAnd(marker, PERSISTENT_READER_LOCK) # 0
Marked(marker) == BitAnd(marker, PERSISTENT_READER_MARK) # 0

\* A reader that ignores the lock of the marker.
MarkCasNeverFails(marker) == FALSE

\* The reader's compare-and-swap on the marker requires LOCK = 0
\* (serial.cpp:40-41, 54-55).
MarkCasFails(marker) == Locked(marker)

\* The reader changes the mark to 0x1 (serial.cpp:38-39).
SetMark(marker) == BitOr(marker, PERSISTENT_READER_MARK)

\* A transaction reads a version.  A young one goes straight to
\* serial_register_reader_tx; for an old one (serial.cpp:37-44) the reader
\* first sets the marker, and aborts if an updater has locked it (sl keeps
\* the version it gave up on).
Read(t, tup) ==
    /\ spc[t] = "active"
    /\ nreads[t] < MaxReads
    /\ IF tup \in oldFor[t] /\ MarkCasFails(persistent_reader[tup])
       THEN /\ sl' = [sl EXCEPT ![t] = [tup |-> tup, old_bitmap |-> 0]]
            /\ spc' = [spc EXCEPT ![t] = "finishing"]
            /\ UNCHANGED <<persistent_reader, touched, nreads>>
       ELSE /\ nreads' = [nreads EXCEPT ![t] = @ + 1]
            /\ persistent_reader' =
                   IF tup \in oldFor[t]
                   THEN [persistent_reader EXCEPT ![tup] = SetMark(@)]
                   ELSE persistent_reader
            /\ sl' = [sl EXCEPT ![t] = [tup |-> tup, old_bitmap |-> 0]]
            /\ touched' = [touched EXCEPT ![t] = @ \cup {tup}]
            /\ spc' = [spc EXCEPT ![t] = "register"]
    /\ UNCHANGED <<avars, wr, stampvars, tls_bitmap_entry, claimed_bitmap_entries, rl_bitmap,
                   xids, read_set, oldFor>>

\* serial.cpp:208  if (not (old_bitmap & tls_bitmap_entry))
NeedsOr(old_bitmap, entry) == BitAnd(old_bitmap, entry) = 0

\* A registration that stores the old bitmap's value with the bit added,
\* as if no reader had come since the version was made.
StoreEntry(bitmap, entry) == entry

\* serial.cpp:213  __sync_fetch_and_or(&t->rl_bitmap, tls_bitmap_entry)
FetchAndOr(bitmap, entry) == BitOr(bitmap, entry)

\* A deregistration that flips the bit without looking.
NeedsXorAlways(bitmap, entry) == TRUE

\* serial.cpp:227  if (volatile_read(t->rl_bitmap) & tls_bitmap_entry)
NeedsXor(bitmap, entry) == BitAnd(bitmap, entry) # 0

\* A deregistration that leaves the bitmap as it is.
FetchAndXorNone(bitmap, entry) == bitmap

\* serial.cpp:228  __sync_fetch_and_xor(&t->rl_bitmap, tls_bitmap_entry)
FetchAndXor(bitmap, entry) == BitXor(bitmap, entry)

\* The read is over: a young version joins the read set, an old one does not
\* (serial.cpp:43-44, 59-61).
Tracked(t, tup) ==
    IF tup \in oldFor[t] THEN read_set[t] ELSE Append(read_set[t], tup)

\* serial_register_reader_tx (serial.cpp:207-208, 216): the bitmap is read;
\* with the caller's bit already there the call returns.
RegisterRead(t) ==
    /\ spc[t] = "register"
    /\ LET tup == sl[t].tup
           old_bitmap == rl_bitmap[tup]
       IN  IF NeedsOr(old_bitmap, tls_bitmap_entry[t])
           THEN /\ spc' = [spc EXCEPT ![t] = "or"]
                /\ UNCHANGED <<sl, read_set>>
           ELSE /\ sl' = [sl EXCEPT ![t] = NoReaderLocals]
                /\ spc' = [spc EXCEPT ![t] = "active"]
                /\ read_set' = [read_set EXCEPT ![t] = Tracked(t, tup)]
    /\ UNCHANGED <<avars, wr, stampvars, tls_bitmap_entry, claimed_bitmap_entries, rl_bitmap,
                   persistent_reader, xids, oldFor, nreads, touched>>

\* serial_register_reader_tx (serial.cpp:213-216): the fetch-and-or.
RegisterOr(t) ==
    /\ spc[t] = "or"
    /\ LET tup == sl[t].tup
       IN  /\ rl_bitmap' = [rl_bitmap EXCEPT
                               ![tup] = FetchAndOr(@, tls_bitmap_entry[t])]
           /\ read_set' = [read_set EXCEPT ![t] = Tracked(t, tup)]
    /\ sl' = [sl EXCEPT ![t] = NoReaderLocals]
    /\ spc' = [spc EXCEPT ![t] = "active"]
    /\ UNCHANGED <<avars, wr, stampvars, tls_bitmap_entry, claimed_bitmap_entries,
                   persistent_reader, xids, oldFor, nreads, touched>>

\* The transaction commits or aborts: post-commit (or abort) walks the read set.
TxFinish(t) ==
    /\ spc[t] = "active"
    /\ spc' = [spc EXCEPT ![t] = "finishing"]
    /\ UNCHANGED <<avars, wr, stampvars, tls_bitmap_entry, claimed_bitmap_entries, rl_bitmap,
                   persistent_reader, xids, read_set, oldFor, nreads, touched, sl>>

\* serial_deregister_reader_tx (serial.cpp:222-227) on the next entry of the
\* read set: the bitmap is read; with the caller's bit clear the call returns.
DeregisterRead(t) ==
    /\ spc[t] = "finishing"
    /\ read_set[t] # <<>>
    /\ LET tup == Head(read_set[t])
       IN  IF NeedsXor(rl_bitmap[tup], tls_bitmap_entry[t])
           THEN /\ sl' = [sl EXCEPT ![t] = [tup |-> tup, old_bitmap |-> 0]]
                /\ spc' = [spc EXCEPT ![t] = "xor"]
                /\ UNCHANGED read_set
           ELSE /\ read_set' = [read_set EXCEPT ![t] = Tail(@)]
                /\ UNCHANGED <<sl, spc>>
    /\ UNCHANGED <<avars, wr, stampvars, tls_bitmap_entry, claimed_bitmap_entries, rl_bitmap,
                   persistent_reader, xids, oldFor, nreads, touched>>

\* serial_deregister_reader_tx (serial.cpp:228-230): the fetch-and-xor.
DeregisterXor(t) ==
    /\ spc[t] = "xor"
    /\ rl_bitmap' = [rl_bitmap EXCEPT
                        ![sl[t].tup] = FetchAndXor(@, tls_bitmap_entry[t])]
    /\ read_set' = [read_set EXCEPT ![t] = Tail(@)]
    /\ sl' = [sl EXCEPT ![t] = NoReaderLocals]
    /\ spc' = [spc EXCEPT ![t] = "finishing"]
    /\ UNCHANGED <<avars, wr, stampvars, tls_bitmap_entry, claimed_bitmap_entries,
                   persistent_reader, xids, oldFor, nreads, touched>>

\* serial_deregister_tx (serial.cpp:240-246) at transaction end, once the read
\* set has been walked.
TxEnd(t) ==
    /\ spc[t] = "finishing"
    /\ read_set[t] = <<>>
    /\ \E i \in XidPos(tls_bitmap_entry[t]) : xids' = [xids EXCEPT ![i] = 0]
    /\ nreads' = [nreads EXCEPT ![t] = 0]
    /\ cstamp' = [cstamp EXCEPT ![t] = 0]
    /\ sl' = [sl EXCEPT ![t] = NoReaderLocals]
    /\ spc' = [spc EXCEPT ![t] = "idle"]
    /\ UNCHANGED <<avars, wr, tls_bitmap_entry, claimed_bitmap_entries, rl_bitmap,
                   persistent_reader, read_set, oldFor, touched,
                   last_read_mostly_clsns, next_cstamp, stamped>>

\* An updater that stores the lock over the marker.
SetLockStore(marker) == PERSISTENT_READER_LOCK

\* The updater sets the marker's most significant bit (serial.cpp:52-54,
\* 65-66: a marked version goes to 0x81).
SetLock(marker) == BitOr(marker, PERSISTENT_READER_LOCK)

\* The bit positions set in a bitmap.
BitsOf(bitmap) == {i \in Slots : BitAnd(bitmap, Pow2(i)) # 0}

Max(a, b) == IF a > b THEN a ELSE b

\* An updater at pre-commit, with its commit stamp, locks out the readers
\* that would take the version for an old one (serial.cpp:52-55).
WriterLock(tup) ==
    /\ wr[tup].pc = "none"
    /\ next_cstamp <= MaxStamp
    /\ persistent_reader' = [persistent_reader EXCEPT ![tup] = SetLock(@)]
    /\ wr' = [wr EXCEPT ![tup].pc = "snapshot", ![tup].cstamp = next_cstamp]
    /\ next_cstamp' = next_cstamp + 1
    /\ UNCHANGED <<avars, tls_bitmap_entry, claimed_bitmap_entries, rl_bitmap,
                   xids, read_set, oldFor, nreads, touched, sl, spc,
                   last_read_mostly_clsns, cstamp, stamped>>

\* serial_get_tuple_readers (serial.cpp:172-177): the updater's snapshot of
\* the version's readers.
WriterSnapshot(tup) ==
    /\ wr[tup].pc = "snapshot"
    /\ wr' = [wr EXCEPT ![tup].pc = "mark", ![tup].bm = rl_bitmap[tup]]
    /\ UNCHANGED <<avars, stampvars, tls_bitmap_entry, claimed_bitmap_entries,
                   rl_bitmap, persistent_reader, xids, read_set, oldFor, nreads,
                   touched, sl, spc>>

\* The updater reads the marker (serial.cpp:55-57): with the mark set every
\* position of the list is looked at, otherwise the positions of the snapshot.
WriterReadMark(tup) ==
    /\ wr[tup].pc = "mark"
    /\ LET mark == Marked(persistent_reader[tup])
       IN  wr' = [wr EXCEPT ![tup].pc = "inspect",
                          ![tup].mark = mark,
                          ![tup].todo = IF mark THEN Slots ELSE BitsOf(wr[tup].bm)]
    /\ UNCHANGED <<avars, stampvars, tls_bitmap_entry, claimed_bitmap_entries,
                   rl_bitmap, persistent_reader, xids, read_set, oldFor, nreads,
                   touched, sl, spc>>

\* The reader at a position is gone (serial.cpp:78-83, 158-161), or the mark
\* says that a reader nobody tracks has been there.
ReaderAbsent(tup, i) == xids[i] = 0 \/ wr[tup].mark

\* The updater looks at one position (serial.cpp:106-126, 158-161).  For a
\* reader that is gone it takes the position's last commit stamp; it waits
\* for a reader in pre-commit with an earlier stamp and takes that stamp; a
\* reader that commits later gives it nothing.
WriterInspect(tup, i) ==
    /\ wr[tup].pc = "inspect"
    /\ i \in wr[tup].todo
    /\ IF ReaderAbsent(tup, i)
       THEN wr' = [wr EXCEPT ![tup].todo = @ \ {i},
                           ![tup].pstamp =
                               Max(@, serial_get_last_read_mostly_cstamp(i))]
       ELSE LET r_cstamp == cstamp[xids[i]]
            IN  IF 0 < r_cstamp /\ r_cstamp < wr[tup].cstamp
                THEN /\ spc[xids[i]] = "finishing"
                     /\ wr' = [wr EXCEPT ![tup].todo = @ \ {i},
                                       ![tup].pstamp = Max(@, r_cstamp)]
                ELSE wr' = [wr EXCEPT ![tup].todo = @ \ {i}]
    /\ UNCHANGED <<avars, stampvars, tls_bitmap_entry, claimed_bitmap_entries,
                   rl_bitmap, persistent_reader, xids, read_set, oldFor, nreads,
                   touched, sl, spc>>

\* Every position has been looked at: validation follows.
WriterDone(tup) ==
    /\ wr[tup].pc = "inspect"
    /\ wr[tup].todo = {}
    /\ wr' = [wr EXCEPT ![tup].pc = "done"]
    /\ UNCHANGED <<avars, stampvars, tls_bitmap_entry, claimed_bitmap_entries,
                   rl_bitmap, persistent_reader, xids, read_set, oldFor, nreads,
                   touched, sl, spc>>

\* ------------------------------------------------------------ specification

Init ==
    /\ allocated_hot_offset = 0
    /\ allocated_cold_offset = 0
    /\ reclaimed_offset = hot_capacity
    /\ state = RA_NORMAL
    /\ trim_lsn = INVALID_LSN
    /\ cur_lsn = 1
    /\ mem = [a \in Addrs |-> NoObj]
    /\ heads = [o \in Oids |-> NULL]
    /\ dpc = "forever"
    /\ d = NoDaemonLocals
    /\ pc = [t \in Threads |-> "idle"]
    /\ tl = [t \in Threads |-> NoLocals]
    /\ inEpoch = [t \in Threads |-> "out"]
    /\ epoch_closed = FALSE
    /\ epoch_cookie = NULL
    /\ atFinish = {}
    /\ kept = NoChunk
    /\ tls_bitmap_entry = [t \in Readers |-> 0]
    /\ claimed_bitmap_entries = 0
    /\ rl_bitmap = [tup \in Tuples |-> 0]
    /\ persistent_reader = [tup \in Tuples |-> 0]
    /\ xids = [i \in Slots |-> 0]
    /\ read_set = [t \in Readers |-> <<>>]
    /\ oldFor = [t \in Readers |-> {}]
    /\ nreads = [t \in Readers |-> 0]
    /\ touched = [t \in Readers |-> {}]
    /\ sl = [t \in Readers |-> NoReaderLocals]
    /\ spc = [t \in Readers |-> "none"]
    /\ last_read_mostly_clsns = [i \in Slots |-> 0]
    /\ next_cstamp = 1
    /\ cstamp = [t \in Readers |-> 0]
    /\ stamped = [i \in Slots |-> 0]
    /\ wr = [tup \in Tuples |-> NoWriterLocals]

Next ==
    \/ \E t \in Threads : EpochEnter(t)
    \/ \E t \in Threads : EpochExit(t)
    \/ \E t \in Threads, size \in Sizes : Allocate(t, size)
    \/ \E t \in Threads : AllocSetRequested(t)
    \/ \E t \in Threads : AllocRetry(t)
    \/ \E t \in Threads : AllocNewEpoch(t)
    \/ \E t \in Threads, o \in Oids : Install(t, o)
    \/ \E t \in Threads : Discard(t)
    \/ \E t \in Threads : ThreadExitNewEpoch(t)
    \/ EpochReclaim
    \/ DaemonWait
    \/ DaemonBegin
    \/ DaemonStartOver
    \/ DaemonHeadCold
    \/ DaemonWalkSkip
    \/ DaemonWalkTruncate
    \/ DaemonWalkRelocate
    \/ DaemonFinish

\* With the cursor bounded by MaxHot the ring is never exhausted, so no
\* allocation of this specification runs out of memory (SpecWide has those).
Spec == Init /\ [][Next]_vars

\* The allocator when no transaction installs a version: every chunk is given
\* up, the chains stay empty and the daemon walks nothing.  The cursor may go
\* past the whole ring.
NextWide ==
    \/ \E t \in Threads : EpochEnter(t)
    \/ \E t \in Threads : EpochExit(t)
    \/ \E t \in Threads, size \in Sizes : AllocateWide(t, size)
    \/ \E t \in Threads : AllocSetRequested(t)
    \/ \E t \in Threads : AllocRetry(t)
    \/ \E t \in Threads : AllocNewEpoch(t)
    \/ \E t \in Threads : AllocFailed(t)
    \/ \E t \in Threads : Discard(t)
    \/ \E t \in Threads : ThreadExitNewEpoch(t)
    \/ EpochReclaim
    \/ DaemonWait
    \/ DaemonBegin
    \/ DaemonStartOver
    \/ DaemonFinish

SpecWide == Init /\ [][NextWide]_vars

\* The same allocator, remembering one of the chunks it has returned.
NextRing ==
    \/ \E t \in Threads : EpochEnter(t)
    \/ \E t \in Threads : EpochExit(t)
    \/ \E t \in Threads, size \in Sizes : AllocateKeep(t, size)
    \/ \E t \in Threads : AllocSetRequested(t)
    \/ \E t \in Threads : AllocRetryKeep(t)
    \/ \E t \in Threads : AllocNewEpoch(t)
    \/ \E t \in Threads : AllocFailed(t)
    \/ \E t \in Threads : Discard(t)
    \/ \E t \in Threads : ThreadExitNewEpoch(t)
    \/ EpochReclaim
    \/ DaemonWait
    \/ DaemonBegin
    \/ DaemonStartOver
    \/ DaemonFinish

SpecRing == Init /\ [][NextRing]_vars

\* Threads keep leaving their transactions and finishing their allocations,
\* epochs keep ending and being reclaimed, and the daemon thread keeps running.
Fairness ==
    /\ \A t \in Threads : /\ WF_vars(EpochExit(t))
                          /\ WF_vars(AllocSetRequested(t))
                          /\ WF_vars(AllocRetry(t))
                          /\ WF_vars(Discard(t))
    /\ SF_vars(\E t \in Threads : ThreadExitNewEpoch(t))
    /\ WF_vars(EpochReclaim)
    /\ WF_vars(DaemonWait)
    /\ WF_vars(DaemonBegin)
    /\ WF_vars(DaemonStartOver)
    /\ WF_vars(DaemonHeadCold)
    /\ WF_vars(DaemonWalkSkip)
    /\ WF_vars(DaemonWalkTruncate)
    /\ WF_vars(DaemonWalkRelocate)
    /\ WF_vars(DaemonFinish)

SpecLive == Init /\ [][Next]_vars /\ Fairness

\* The reader protocol of serial.cpp, on its own.
NextSerial ==
    \/ \E t \in Threads : AssignRead(t)
    \/ \E t \in Threads : AssignCas(t)
    \/ \E t \in Threads : Deassign(t)
    \/ \E t \in Threads : TxBegin(t)
    \/ \E t \in Threads, tup \in Tuples : Read(t, tup)
    \/ \E t \in Threads : RegisterRead(t)
    \/ \E t \in Threads : RegisterOr(t)
    \/ \E t \in Threads : TxFinish(t)
    \/ \E t \in Threads : DeregisterRead(t)
    \/ \E t \in Threads : DeregisterXor(t)
    \/ \E t \in Threads : TxEnd(t)
    \/ \E tup \in Tuples : WriterLock(tup)

SpecSerial == Init /\ [][NextSerial]_vars

\* The version an updater is about to overwrite.
Inspected == {1}

\* A transaction begins that reads nothing but that version.
TxBeginOn(t) == \E old \in SUBSET Inspected : TxStart(t, old)

\* Readers of one version, their commits, and the version's updater at
\* pre-commit.
NextWriter ==
    \/ \E t \in Threads : AssignRead(t)
    \/ \E t \in Threads : AssignCas(t)
    \/ \E t \in Threads : Deassign(t)
    \/ \E t \in Threads : TxBeginOn(t)
    \/ \E t \in Threads, tup \in Inspected : Read(t, tup)
    \/ \E t \in Threads : RegisterRead(t)
    \/ \E t \in Threads : RegisterOr(t)
    \/ \E t \in Threads : PreCommit(t)
    \/ \E t \in Threads : Stamp(t)
    \/ \E t \in Threads : TxFinish(t)
    \/ \E t \in Threads : DeregisterRead(t)
    \/ \E t \in Threads : DeregisterXor(t)
    \/ \E t \in Threads : TxEnd(t)
    \/ \E tup \in Inspected : WriterLock(tup)
    \/ \E tup \in Inspected : WriterSnapshot(tup)
    \/ \E tup \in Inspected : WriterReadMark(tup)
    \/ \E tup \in Inspected, i \in Slots : WriterInspect(tup, i)
    \/ \E tup \in Inspected : WriterDone(tup)

SpecWriter == Init /\ [][NextWriter]_vars

\* The readers list on its own: one thread more than the claimed word has
\* bits; the transactions read nothing.
NextSlots ==
    \/ \E t \in Readers : AssignRead(t)
    \/ \E t \in Readers : AssignCas(t)
    \/ \E t \in Readers : Deassign(t)
    \/ \E t \in Readers : TxBeginPlain(t)
    \/ \E t \in Readers : PreCommit(t)
    \/ \E t \in Readers : Stamp(t)
    \/ \E t \in Readers : TxFinish(t)
    \/ \E t \in Readers : TxEnd(t)

SpecSlots == Init /\ [][NextSlots]_vars

\* ------------------------------------------------------------ claims

\* The versions an index traversal reaches from the chain heads.
Reachable == Closure(mem, {heads[o] : o \in Oids} \ {NULL})

\* The hot segment an address lies in.
SegmentOf(a) == a \div seg_size

\* C1: reclaimed_offset - allocated_hot_offset lies in [0, hot_capacity] in
\* every reachable state, whether allocations succeed or fail.
C1_CursorWithinReclaimed ==
    /\ allocated_hot_offset <= reclaimed_offset
    /\ reclaimed_offset - allocated_hot_offset <= hot_capacity

\* C2: when the daemon has drained segment [start, end) and is about to set
\* GC_FINISHED, no version reachable from a chain head lies in that segment.
C2_DrainedSegmentUnreachable ==
    dpc = "finish" =>
        \A a \in Reachable : ~InSegment(d.start, a, mem[a].size)

\* C3: reclaimed_offset is advanced only when every thread that was inside an
\* epoch when the daemon completed the drain has left that epoch, and at that
\* moment a thread that is inside an epoch can hold no pointer into the
\* segment being released: no version stored in it can still be reached.
C3_NoPointerIntoReleasedSegment ==
    [][reclaimed_offset' # reclaimed_offset =>
          /\ atFinish = {}
          /\ (\E t \in Threads : inEpoch[t] # "out") =>
                 \A a \in Reachable :
                     ~InSegment(reclaimed_offset % hot_capacity, a, mem[a].size)]_vars

\* C4: reclaimed_offset changes only in the epoch-reclaim callback of an
\* allocator in GC_FINISHED, which returns it to NORMAL, and every such step
\* adds exactly one segment size.
C4_BumpByOneSegment ==
    [][/\ reclaimed_offset' # reclaimed_offset =>
            /\ state = RA_GC_FINISHED /\ state' = RA_NORMAL
            /\ epoch_closed /\ ~epoch_closed'
       /\ (state = RA_GC_FINISHED /\ state' = RA_NORMAL) =>
            reclaimed_offset' = reclaimed_offset + seg_size]_vars

C4_Witness ==
    state = RA_NORMAL /\ reclaimed_offset = hot_capacity + seg_size

\* C5: under fair scheduling, with epochs that keep ending and being
\* reclaimed, an allocator that enters GC_REQUESTED with reclaimed_offset r
\* eventually is back in NORMAL with reclaimed_offset r + 2^segment_bits
\* (unless the process has been terminated by a fatal error).
C5_RequestedLeadsToNormal ==
    \A k \in 0..((MaxHot - 1) \div seg_size) :
        (state = RA_GC_REQUESTED /\ reclaimed_offset = hot_capacity + k * seg_size)
            ~> (\/ state = RA_NORMAL
                       /\ reclaimed_offset = hot_capacity + (k + 1) * seg_size
                \/ ~Alive)

\* C6: every chunk a successful allocate returns, to a worker or to the
\* daemon for a relocated copy, lies inside one hot segment.
C6_ChunkInOneSegment ==
    /\ \A t \in Threads : pc[t] = "got" =>
          SegmentOf(tl[t].addr) = SegmentOf(tl[t].addr + tl[t].size - 1)
    /\ \A a \in 0..(hot_capacity - 1) : mem[a].size > 0 =>
          SegmentOf(a) = SegmentOf(a + mem[a].size - 1)

\* A worker holds the chunk it got on the retry after the chunk spanning the
\* first segment boundary was abandoned.
C6_Witness ==
    \E t \in Threads : pc[t] = "got" /\ tl[t].size = 2 /\ tl[t].addr = seg_size + 1

\* C7: a pass of allocate raises out-of-memory exactly when the cursor value
\* its fetch-and-add produced exceeds reclaimed_offset.
C7_OomExactly ==
    [][\A t \in Threads :
          (pc[t] \in {"txn", "retry"} /\ pc'[t] \in {"oom", "overlap", "setreq", "got"})
          => ((pc'[t] = "oom") <=> (reclaimed_offset < allocated_hot_offset'))]_vars

C7_Witness == \E t \in Threads : pc[t] = "oom"

\* C8: an allocate whose chunk spans a segment boundary while the state is not
\* NORMAL fails with the GC-overlap error and leaves the state as it was, in a
\* worker and in the daemon's relocation alike.
C8_OverlapIsFatal ==
    [][(/\ allocated_hot_offset' # allocated_hot_offset
        /\ Spans(allocated_hot_offset', allocated_hot_offset' - allocated_hot_offset)
        /\ allocated_hot_offset' <= reclaimed_offset
        /\ state # RA_NORMAL)
       => /\ state' = state
          /\ \/ \E t \in Threads : pc[t] # "overlap" /\ pc'[t] = "overlap"
             \/ pc' = pc /\ dpc' = "terminated"]_vars

\* The daemon died of the GC-overlap error while relocating a version.
C8_Witness ==
    /\ dpc = "terminated"
    /\ allocated_cold_offset <= cold_capacity
    /\ allocated_hot_offset <= reclaimed_offset

\* C9 as stated: once a reader's transaction has deregistered, the reader's bit
\* is clear in the bitmap of every version the transaction read, by either path.
C9_BitClearForEveryRead ==
    \A t \in Threads :
        spc[t] = "idle" =>
            \A tup \in touched[t] : BitAnd(rl_bitmap[tup], tls_bitmap_entry[t]) = 0

\* C9: once a reader's transaction has deregistered, the reader's bit is clear
\* in the bitmap of every version it read as a young one (whatever the number
\* of reads), and still set in the bitmap of every version it read as an old one.
C9_BitClearForTrackedReads ==
    \A t \in Threads :
        spc[t] = "idle" =>
            \A tup \in touched[t] :
                (BitAnd(rl_bitmap[tup], tls_bitmap_entry[t]) = 0) <=> (tup \notin oldFor[t])

C9_Witness ==
    \E t \in Threads :
        /\ spc[t] = "idle"
        /\ touched[t] \ oldFor[t] # {}
        /\ touched[t] \cap oldFor[t] # {}

\* C10: a serial_register_reader_tx call that finds the caller's bit in the
\* bitmap returns with every bitmap unchanged, and each completed
\* serial_deregister_reader_tx call, the first or a later one on the same
\* version, leaves the caller's bit clear.
C10_RegistrationIdempotent ==
    [][\A t \in Threads :
          /\ (/\ spc[t] = "register"
              /\ spc'[t] # "register"
              /\ BitAnd(rl_bitmap[sl[t].tup], tls_bitmap_entry[t]) # 0)
                 => (rl_bitmap' = rl_bitmap /\ spc'[t] = "active")
          /\ (/\ spc[t] \in {"finishing", "xor"}
              /\ Len(read_set'[t]) < Len(read_set[t]))
                 => BitAnd(rl_bitmap'[Head(read_set[t])], tls_bitmap_entry[t]) = 0]_vars

C10_Witness ==
    \E t \in Threads :
        /\ spc[t] = "finishing"
        /\ nreads[t] = 2
        /\ read_set[t] = <<>>
        /\ Cardinality(touched[t]) = 1
        /\ touched[t] \cap oldFor[t] = {}

\* The lowest unset bit of a word, as a mask.
RECURSIVE LowestUnset(_)
LowestUnset(w) == IF w % 2 = 0 THEN 1 ELSE 2 * LowestUnset(w \div 2)

\* The OR of the masks the threads of S hold.
RECURSIVE OrOfMasks(_)
OrOfMasks(S) ==
    IF S = {} THEN 0
    ELSE LET t == CHOOSE u \in S : TRUE
         IN  BitOr(tls_bitmap_entry[t], OrOfMasks(S \ {t}))

OneBit(mask) == \E i \in Slots : mask = Pow2(i)

\* C11: every mask a thread holds has exactly one bit, no two threads hold the
\* same bit, the claimed word is the OR of the masks held, and the bit a
\* successful compare-and-swap gives a thread is the lowest unset bit of the
\* claimed word at that instant.
C11_SlotsAreExclusive ==
    /\ [](/\ \A t \in Readers : tls_bitmap_entry[t] # 0 => OneBit(tls_bitmap_entry[t])
          /\ \A t, u \in Readers :
                 (t # u /\ tls_bitmap_entry[t] # 0) => tls_bitmap_entry[t] # tls_bitmap_entry[u]
          /\ claimed_bitmap_entries = OrOfMasks(Readers))
    /\ [][\A t \in Readers :
            (tls_bitmap_entry[t] = 0 /\ tls_bitmap_entry'[t] # 0) =>
                /\ tls_bitmap_entry'[t] = LowestUnset(claimed_bitmap_entries)
                /\ claimed_bitmap_entries' =
                       BitOr(claimed_bitmap_entries, tls_bitmap_entry'[t])]_vars

\* Two threads hold one bit each and the claimed word is full.
C11_Witness ==
    /\ claimed_bitmap_entries = WordSize - 1
    /\ \E t, u \in Readers :
           /\ t # u
           /\ tls_bitmap_entry[t] = 1
           /\ tls_bitmap_entry[u] = 2
           /\ spc[t] = "idle" /\ spc[u] = "idle"

\* C12: assign_reader_bitmap_entry never returns leaving the thread with an
\* empty mask or with a bit that another thread holds.
C12_ExhaustionIsFatal ==
    \A t \in Readers :
        spc[t] # "none" /\ spc[t] # "assign" =>
            /\ tls_bitmap_entry[t] # 0
            /\ \A u \in Readers \ {t} :
                   BitAnd(tls_bitmap_entry[t], tls_bitmap_entry[u]) = 0

\* The thread is between its serial_register_tx and its serial_deregister_tx.
InTransaction(t) == spc[t] \notin {"none", "assign", "idle"}

\* C13: xids[i] is non-zero only while the thread that holds bit i is inside a
\* transaction, and is then that transaction's id; xids[i] and
\* last_read_mostly_clsns[i] are written only by a step of the thread that
\* holds bit i; and serial_register_tx always finds its slot empty.
C13_OneXidPerSlot ==
    /\ [](\A i \in Slots :
              xids[i] # 0 =>
                  /\ tls_bitmap_entry[xids[i]] = Pow2(i)
                  /\ InTransaction(xids[i]))
    /\ [][/\ \A i \in Slots :
               (xids'[i] # xids[i] \/ last_read_mostly_clsns'[i] # last_read_mostly_clsns[i])
                   => \E t \in Readers :
                          tls_bitmap_entry[t] = Pow2(i) /\ spc'[t] # spc[t]
          /\ \A t \in Readers :
               (spc[t] = "idle" /\ spc'[t] = "active")
                   => (tls_bitmap_entry[t] # 0 /\ xids[Ctz(tls_bitmap_entry[t])] = 0)]_vars

\* C14: once a reader that holds bit i has completed
\* serial_stamp_last_committed_lsn(c), serial_get_last_read_mostly_cstamp(i)
\* returns at least c, also after the reader's serial_deregister_tx (which
\* leaves last_read_mostly_clsns unchanged) and after later stamps on the slot.
C14_StampIsPublished ==
    /\ [](\A i \in Slots : serial_get_last_read_mostly_cstamp(i) >= stamped[i])
    /\ [][(\E t \in Readers : spc[t] = "finishing" /\ spc'[t] = "idle")
             => last_read_mostly_clsns' = last_read_mostly_clsns]_vars

\* The thread's step is an old-version read of the version that takes place.
OldReadBy(t, tup) ==
    /\ spc[t] = "active"
    /\ spc'[t] = "register"
    /\ sl'[t].tup = tup
    /\ tup \in oldFor[t]

\* The step is the version's updater locking the marker.
LockBy(tup) == wr[tup].pc = "none" /\ wr'[tup].pc # "none"

\* C15: for every version, persistent_reader holds one of 0x00, 0x01, 0x80,
\* 0x81; it changes only from 0x00 to 0x01 by a reader on the old-version
\* path, and from 0x00 to 0x80 or from 0x01 to 0x81 by the updater; once the
\* lock bit is set it stays set.
C15_MarkerStateMachine ==
    /\ [](\A tup \in Tuples : persistent_reader[tup] \in {0, 1, 128, 129})
    /\ [][\A tup \in Tuples :
             /\ persistent_reader'[tup] # persistent_reader[tup] =>
                    \/ /\ persistent_reader[tup] = 0
                       /\ persistent_reader'[tup] = 1
                       /\ \E t \in Threads : OldReadBy(t, tup)
                    \/ /\ persistent_reader[tup] = 0
                       /\ persistent_reader'[tup] = 128
                       /\ LockBy(tup)
                    \/ /\ persistent_reader[tup] = 1
                       /\ persistent_reader'[tup] = 129
                       /\ LockBy(tup)
             /\ BitAnd(persistent_reader[tup], PERSISTENT_READER_LOCK) # 0 =>
                    BitAnd(persistent_reader'[tup], PERSISTENT_READER_LOCK) # 0]_vars

\* One version has been marked and then locked, another locked unmarked.
C15_Witness ==
    \E tup, other \in Tuples :
        /\ persistent_reader[tup] = 129
        /\ persistent_reader[other] = 128
        /\ \E t \in Threads : tup \in touched[t] /\ tup \in oldFor[t]

\* The updater of the version has read the marker.
MarkRead(tup) == wr[tup].pc \in {"inspect", "done"}

\* The thread's transaction gave up on an old-version read of the version.
GaveUpOn(t, tup) == spc[t] = "finishing" /\ sl[t].tup = tup

\* C16: once the updater has set the lock bit of a version, no old-version
\* read of that version takes place (the reader aborts) and the marker does
\* not change; so the mark the updater reads after locking is the final one,
\* and every old-version read that has taken place is one whose mark the
\* updater sees.
C16_LockFencesOldReaders ==
    /\ [](\A tup \in Tuples :
             MarkRead(tup) =>
                 /\ wr[tup].mark <=>
                        BitAnd(persistent_reader[tup], PERSISTENT_READER_MARK) # 0
                 /\ \A t \in Threads :
                        tup \in touched[t] /\ tup \in oldFor[t] => wr[tup].mark)
    /\ [][\A tup \in Tuples :
             BitAnd(persistent_reader[tup], PERSISTENT_READER_LOCK) # 0 =>
                 /\ persistent_reader'[tup] = persistent_reader[tup]
                 /\ \A t \in Threads :
                        /\ ~OldReadBy(t, tup)
                        /\ spc[t] = "active" /\ sl'[t].tup = tup /\ tup \in oldFor[t]
                               => spc'[t] = "finishing"]_vars

\* A reader gave up on a locked version that an earlier reader has marked,
\* and the updater has seen the mark; another that found it unmarked.
C16_Witness ==
    \E tup \in Tuples, t, u \in Threads :
        /\ t # u
        /\ GaveUpOn(t, tup)
        /\ tup \in touched[u] /\ tup \in oldFor[u]
        /\ persistent_reader[tup] = 129
        /\ wr[tup].pc = "done"
        /\ wr[tup].mark

\* The step is the updater of the version looking at position i.
Inspects(tup, i) ==
    /\ wr[tup].pc = "inspect"
    /\ i \in wr[tup].todo
    /\ i \notin wr'[tup].todo

\* C17: when the updater's inspection looks at a position i whose bit is in
\* its snapshot while xids[i] = 0, or at any position i when it has read the
\* mark as set, its pstamp after the step is at least the offset of
\* last_read_mostly_clsns[i] at that moment; pstamp is not lowered afterwards.
C17_VanishedReaderRaisesPstamp ==
    [][\A tup \in Tuples :
          /\ wr'[tup].pstamp >= wr[tup].pstamp
          /\ \A i \in Slots :
                 Inspects(tup, i) /\ (xids[i] = 0 \/ wr[tup].mark) =>
                     wr'[tup].pstamp >= LsnOffset(last_read_mostly_clsns[i])]_vars

\* The updater is through: the bit of a reader that is gone was in its
\* snapshot, the mark was set, and the reader's last commit stamp is the
\* updater's pstamp.
C17_Witness ==
    \E tup \in Tuples, i \in Slots :
        /\ wr[tup].pc = "done"
        /\ wr[tup].mark
        /\ i \in BitsOf(wr[tup].bm)
        /\ xids[i] = 0
        /\ last_read_mostly_clsns[i] > 0
        /\ wr[tup].pstamp = LsnOffset(last_read_mostly_clsns[i])

ChainOf(m, hd) == Closure(m, {hd} \ {NULL})

\* The segment the cycle drains (sm-alloc.cpp:319).
DrainStart == reclaimed_offset % hot_capacity

AtHeadSwap ==
    /\ Alive
    /\ dpc \in {"head", "walk"}
    /\ d.cur = d.head
    /\ InSegment(d.start, d.cur, mem[d.cur].size)

\* The step is the daemon's.
DaemonSteps == dpc' # dpc \/ d' # d

\* C19: when a writer has installed a new head between the daemon's read of
\* the head and its compare-and-swap, the swap fails and the daemon (unless
\* its allocation has thrown) starts the oid over, leaving the heads as they
\* are; the daemon replaces a head only by a copy of that head, and no step
\* puts an older version in a head's place; when the daemon is through with that oid the writer's
\* version is in the chain, nothing older is the head, and the version the
\* daemon held, if its clsn is not below the trim LSN, is linked right
\* beneath the writer's version, outside the segment being drained.
C19_WriterWinsTheRace ==
    [][\A o \in Oids :
          /\ AtHeadSwap /\ DaemonSteps /\ d.oid = o /\ heads[o] # d.head
             /\ dpc' # "terminated" =>
                 /\ dpc' = "start_over"
                 /\ d'.oid = o
                 /\ heads' = heads
          /\ heads[o] # NULL =>
                 /\ heads'[o] # NULL
                 /\ mem'[heads'[o]].clsn >= mem[heads[o]].clsn
          /\ DaemonSteps /\ heads'[o] # heads[o] =>
                 /\ d.oid = o
                 /\ heads[o] = d.head
                 /\ mem'[heads'[o]].clsn = mem[heads[o]].clsn
          /\ d.oid = o /\ d'.oid # o /\ d.won # 0 =>
                 /\ mem'[heads'[o]].clsn >= d.won
                 /\ \E b \in ChainOf(mem', heads'[o]) :
                        /\ mem'[b].clsn = d.won
                        /\ d.lost >= d.tlsn =>
                               /\ mem'[b].next # NULL
                               /\ mem'[mem'[b].next].clsn = d.lost
                               /\ ~InSegment(d.start, mem'[b].next,
                                             mem'[mem'[b].next].size)]_vars

\* The daemon has lost the race for a head that stays, to a writer whose
\* version is now the head, and has started the oid over.
C19_Witness ==
    /\ d.won # 0
    /\ d.lost >= d.tlsn
    /\ dpc = "start_over"
    /\ heads[d.oid] # NULL
    /\ mem[heads[d.oid]].clsn = d.won
    /\ mem[heads[d.oid]].next # NULL
    /\ mem[mem[heads[d.oid]].next].clsn = d.lost

\* Worker t executes set_state(RA_GC_REQUESTED) (sm-alloc.cpp:286).
SetsRequested(t) == pc[t] = "setreq" /\ pc'[t] = "retry"

\* The epoch callback runs (RA::epoch_reclaimed).
CallbackRuns == epoch_closed /\ ~epoch_closed' /\ epoch_cookie # NULL

\* The daemon ends its drain (sm-alloc.cpp:389-390).
DaemonEnds == dpc = "finish" /\ dpc' = "forever"

\* C20: the allocator state changes only from NORMAL to GC_REQUESTED by an
\* allocating thread whose chunk spans, from GC_REQUESTED to GC_IN_PROG by
\* the epoch callback, from GC_IN_PROG to GC_FINISHED by the daemon and from
\* GC_FINISHED to NORMAL by the epoch callback; every thread that executes
\* set_state(RA_GC_REQUESTED) finds the state NORMAL, so that no two of them
\* take that step in one cycle; and the state is GC_IN_PROG when the daemon
\* ends a drain.
C20_StateCycle ==
    /\ [](dpc = "finish" => state = RA_GC_IN_PROG)
    /\ [][/\ state' # state =>
                \/ /\ state = RA_NORMAL /\ state' = RA_GC_REQUESTED
                   /\ \E t \in Threads : SetsRequested(t)
                \/ /\ state = RA_GC_REQUESTED /\ state' = RA_GC_IN_PROG
                   /\ CallbackRuns
                \/ /\ state = RA_GC_IN_PROG /\ state' = RA_GC_FINISHED
                   /\ DaemonEnds
                \/ /\ state = RA_GC_FINISHED /\ state' = RA_NORMAL
                   /\ CallbackRuns
          /\ \A t \in Threads : SetsRequested(t) => state = RA_NORMAL]_vars

\* The step is an epoch ending at the exit of a thread.
EndsAtThreadExit == \E t \in Threads : ThreadExitNewEpoch(t)

\* trim_lsn is assigned only by the epoch callback, from a cookie that is
\* there and is not INVALID_LSN; a cookie of INVALID_LSN leaves it as it is.
TrimLsnFromValidCookie ==
    /\ trim_lsn' # trim_lsn =>
           /\ CallbackRuns
           /\ epoch_cookie # INVALID_LSN
           /\ trim_lsn' = epoch_cookie
    /\ CallbackRuns /\ epoch_cookie = INVALID_LSN => trim_lsn' = trim_lsn

RingBytes(end, size) == {(end - size + i) % hot_capacity : i \in 0..(size - 1)}

\* The end offset lies in the window (reclaimed_offset - hot_capacity,
\* reclaimed_offset].
InWindow(end) ==
    end > reclaimed_offset - hot_capacity /\ end <= reclaimed_offset

\* The end of the segment that holds a chunk.
SegmentEnd(end) == (((end - 1) \div seg_size) + 1) * seg_size

\* Worker t comes back from allocate with a chunk.
Returns(t) == pc[t] \in {"txn", "retry"} /\ pc'[t] = "got"

\* C22: a chunk that allocate returns is disjoint on the hot ring from any
\* chunk returned before whose end offset lies, as its own, in the window
\* (reclaimed_offset - hot_capacity, reclaimed_offset]; and it shares a byte
\* of the ring with an earlier chunk only when reclaimed_offset has advanced
\* past the segment that held the earlier chunk.
C22_ChunksDisjointInWindow ==
    [][\A t \in Threads :
          Returns(t) /\ kept # NoChunk =>
              LET end == allocated_hot_offset'
                  both == RingBytes(end, tl'[t].size)
                              \cap RingBytes(kept.end, kept.size)
              IN  /\ InWindow(end) /\ InWindow(kept.end) => both = {}
                  /\ both # {} =>
                         reclaimed_offset - hot_capacity >= SegmentEnd(kept.end)]_vars

\* A thread holds a chunk on bytes of the ring that a remembered chunk had
\* before the ring went round.
C22_Witness ==
    \E t \in Threads :
        /\ pc[t] = "got"
        /\ kept # NoChunk
        /\ tl[t].addr \in RingBytes(kept.end, kept.size)
        /\ allocated_hot_offset >= kept.end + hot_capacity - kept.size
        /\ reclaimed_offset > hot_capacity

\* The versions of a chain from the head down, by what they hold.
RECURSIVE ChainSeq(_, _)
ChainSeq(m, a) ==
    IF a = NULL THEN <<>>
    ELSE <<[clsn |-> m[a].clsn, size |-> m[a].size]>> \o ChainSeq(m, m[a].next)

\* Those of them that are not older than an LSN.
NotOlder(seq, lsn) == SelectSeq(seq, LAMBDA v : v.clsn >= lsn)

IsSuffix(s1, s2) ==
    /\ Len(s1) <= Len(s2)
    /\ SubSeq(s2, Len(s2) - Len(s1) + 1, Len(s2)) = s1

\* C23: no step of the daemon drops, adds, changes or reorders a version
\* with clsn >= trim_lsn of any chain (a copy holds what the original held),
\* and no other step does more than put new versions on top; so every such
\* version that a chain has before a drain it has afterwards, in the same
\* order, and whatever is cut off has clsn < trim_lsn.
C23_DrainKeepsLiveVersions ==
    [][\A o \in Oids :
          LET before == NotOlder(ChainSeq(mem, heads[o]), trim_lsn)
              after == NotOlder(ChainSeq(mem', heads'[o]), trim_lsn)
          IN  /\ IsSuffix(before, after)
              /\ DaemonSteps => after = before]_vars

\* A drain is over in which the daemon has cut the older of two versions off
\* a chain and has left the one that is not older than the trim LSN.
C23_Witness ==
    /\ dpc = "finish"
    /\ cur_lsn = 3
    /\ \E o \in Oids :
           /\ heads[o] # NULL
           /\ mem[heads[o]].clsn = 2
           /\ mem[heads[o]].clsn >= trim_lsn
           /\ mem[heads[o]].next = NULL

\* Thread t is at its fetch-and-or or fetch-and-xor on the version and
\* executes it.
FlipsBitOf(t, tup) ==
    /\ spc[t] \in {"or", "xor"}
    /\ spc'[t] # spc[t]
    /\ sl[t].tup = tup

\* C24: the bitmap of a version changes only by the fetch-and-or of a
\* registration or the fetch-and-xor of a deregistration, and then in the
\* one bit of the thread that runs it, set by the former and cleared by the
\* latter; every other bit keeps the value it has at that moment, whatever
\* the thread had read before.
C24_OnlyOwnBitChanges ==
    [][\A tup \in Tuples :
          rl_bitmap'[tup] # rl_bitmap[tup] =>
              \E t \in Threads :
                  /\ FlipsBitOf(t, tup)
                  /\ tls_bitmap_entry[t] \in {Pow2(i) : i \in Slots}
                  /\ BitXor(rl_bitmap'[tup], rl_bitmap[tup]) = tls_bitmap_entry[t]
                  /\ spc[t] = "or" =>
                         BitAnd(rl_bitmap'[tup], tls_bitmap_entry[t]) # 0
                  /\ spc[t] = "xor" =>
                         BitAnd(rl_bitmap'[tup], tls_bitmap_entry[t]) = 0]_vars

\* One thread has registered on a version while another, whose bit the
\* version has too, stands between its read and its fetch-and-xor.
C24_Witness ==
    \E tup \in Tuples, t, u \in Threads :
        /\ t # u
        /\ spc[t] = "xor"
        /\ sl[t].tup = tup
        /\ spc[u] = "active"
        /\ tup \in touched[u]
        /\ tls_bitmap_entry[t] # 0
        /\ tls_bitmap_entry[u] # 0
        /\ rl_bitmap[tup] = BitOr(tls_bitmap_entry[t], tls_bitmap_entry[u])

====
